---- MODULE Spec2Model ----
(***************************************************************************)
(* The debug workflow of kubectl-rook-ceph (pkg/debug/start_debug.go):     *)
(* startDebug and its helpers, run against a small Kubernetes cluster.     *)
(* The cluster is the set of Deployments and Pods the API server stores;   *)
(* the deployment controller and the kubelet change pods concurrently with *)
(* the tool, which blocks on one API call at a time.                       *)
(***************************************************************************)
EXTENDS Integers, Sequences, FiniteSets, TLC

VARIABLES
    deployments,          \* API server: (namespace, name) -> Deployment
    pods,                 \* API server: the set of Pods
    pc,                   \* the tool's position in startDebug
    runs,                 \* invocations of the CLI so far
    deploymentName,       \* argument of startDebug
    alternateImageValue,  \* argument of startDebug
    deployment,           \* local: the dereferenced copy of the fetched deployment
    labels,               \* local: the labels map (aliases deployment.Labels)
    labelSelector,        \* local: the daemon type/id selector
    deploymentPodName,    \* local: the pod found by the first WaitForPodToRun
    debugDeployment,      \* local: the object returned by Create
    i,                    \* loop counter of the wait helper in progress
    everyGetFound,        \* history: every Get of waitForPodDeletion so far found the pod
    lastGet,              \* history: the answer of the latest Get of waitForPodDeletion
    err,                  \* the error the run ended with
    pod,                  \* the pod reported as ready for debugging
    calls,                \* history: the cluster operations this run has issued
    debugged              \* history: (deployment name, run) of every successful run

vars == << deployments, pods, pc, runs, deploymentName, alternateImageValue,
           deployment, labels, labelSelector, deploymentPodName, debugDeployment,
           i, everyGetFound, lastGet, err, pod, calls, debugged >>

----------------------------------------------------------------------------
(* Bounds of the model *)

MaxRuns == 2

(* Program constants *)

PodDeletionRetries == 60
PodRunRetries == 60

CephClusterNamespace == "rook-ceph"
OtherNamespace == "other"
Namespaces == {CephClusterNamespace, OtherNamespace}

DoNotReconcile == "ceph.rook.io/do-not-reconcile"
SleepCommand == << "sleep", "infinity" >>
NoProbe == "nil"
NoArgs == << >>

----------------------------------------------------------------------------
(* Names.  A name is a sequence of parts; "%s-debug" appends a part. *)

MonA == << "rook-ceph-mon-a" >>
MonB == << "rook-ceph-mon-b" >>
DeploymentNames == {MonA, MonB}
AlternateImages == {"", "Y"}

DebugName(name) == name \o << "debug" >>

\* The name the ReplicaSet gives a pod of a deployment: the deployment's name
\* followed by generated suffixes.
PodNameOf(name) == name \o << "7d4b9", "x2x9p" >>

----------------------------------------------------------------------------
(* Objects *)

Container(image, command, args, liveness, startup, readiness) ==
    [ image |-> image, command |-> command, args |-> args,
      livenessProbe |-> liveness, startupProbe |-> startup,
      readinessProbe |-> readiness ]

MonContainer ==
    Container("X", << "ceph-mon" >>, << "--foreground" >>, "probe", "probe", NoProbe)
ReadyContainer ==
    Container("X", << "ceph-osd" >>, << "--foreground" >>, "probe", NoProbe, "probe")
LogCollector ==
    Container("X", << "bash" >>, << "-c", "logrotate" >>, "probe", NoProbe, NoProbe)

NoLabels == [ k \in {} |-> "" ]
AppLabels == [ k \in {"app"} |-> "rook-ceph-mon" ]
HeldLabels == [ k \in {"app", DoNotReconcile} |->
                  IF k = "app" THEN "rook-ceph-mon" ELSE "false" ]

MonDaemon == [ ceph_daemon_type |-> "mon", ceph_daemon_id |-> "a" ]
NoDaemon == [ ceph_daemon_type |-> "", ceph_daemon_id |-> "" ]

\* A Deployment: ObjectMeta (name, namespace, labels; labelsNil is Go's nil
\* map) and Spec (replicas, the template's labels, the template's containers).
Deployment(ns, name, lbls, lblsNil, replicas, daemon, containers) ==
    [ name |-> name, namespace |-> ns, labels |-> lbls, labelsNil |-> lblsNil,
      replicas |-> replicas, daemon |-> daemon, containers |-> containers ]

NoDeployment == Deployment("", << >>, NoLabels, TRUE, 0, NoDaemon, << >>)

\* The deployments a run can be pointed at.
OriginalDeployments ==
    { Deployment(CephClusterNamespace, MonA, AppLabels, FALSE, 1, MonDaemon,
                 << MonContainer >>),
      Deployment(CephClusterNamespace, MonA, HeldLabels, FALSE, 1, MonDaemon,
                 << ReadyContainer, LogCollector >>),
      Deployment(CephClusterNamespace, MonA, NoLabels, TRUE, 1, MonDaemon,
                 << MonContainer >>) }

Pod(ns, name, owner, phase, daemon) ==
    [ namespace |-> ns, name |-> name, owner |-> owner, phase |-> phase,
      daemon |-> daemon ]

NoPod == Pod("", << >>, << >>, "", NoDaemon)

\* A pod nobody's deployment owns, whose name is the deployment's name.
BarePod(name) == Pod(CephClusterNamespace, name, << >>, "Running", NoDaemon)

Key(ns, name) == << ns, name >>

Exists(ns, name) == Key(ns, name) \in DOMAIN deployments

PodsOf(ns, name) == { p \in pods : p.namespace = ns /\ p.owner = name }

----------------------------------------------------------------------------
(* Errors and the history of calls *)

Error(kind, name) == [ kind |-> kind, name |-> name ]
NoError == Error("", << >>)

Call(op, name, n) == [ op |-> op, name |-> name, n |-> n ]

----------------------------------------------------------------------------
(* The API server *)

\* Deployments(ns).UpdateScale(name, scale): the stored replica count.
UpdateScale(deps, ns, name, n) ==
    [ deps EXCEPT ![Key(ns, name)].replicas = n ]

\* Deployments(ns).Create(object): a new key in the store.
CreateDeployment(deps, ns, object) ==
    [ k \in DOMAIN deps \cup {Key(ns, object.name)} |->
        IF k = Key(ns, object.name) THEN [ object EXCEPT !.namespace = ns ]
        ELSE deps[k] ]

\* Pods(ns).List(labelSelector, phase Running).
RunningPods(ns, selector) ==
    { p \in pods : /\ p.namespace = ns
                   /\ p.daemon = selector
                   /\ p.phase = "Running" }

\* Pods(ns).Get(name) finds a pod.
PodFound(ns, name) == \E p \in pods : p.namespace = ns /\ p.name = name

----------------------------------------------------------------------------
Init ==
    /\ \E d \in OriginalDeployments, phase \in {"Pending", "Running"},
          bare \in SUBSET {BarePod(MonA)} :
          /\ deployments =
               [ k \in {Key(CephClusterNamespace, MonA), Key(OtherNamespace, MonA)} |->
                   IF k[1] = CephClusterNamespace THEN d
                   ELSE [ d EXCEPT !.namespace = OtherNamespace ] ]
          /\ pods = { Pod(CephClusterNamespace, PodNameOf(MonA), MonA, phase, d.daemon),
                      Pod(OtherNamespace, PodNameOf(MonA), MonA, "Running", d.daemon) }
                    \cup bare
    /\ pc = "idle"
    /\ runs = 0
    /\ deploymentName = << >>
    /\ alternateImageValue = ""
    /\ deployment = NoDeployment
    /\ labels = NoLabels
    /\ labelSelector = NoDaemon
    /\ deploymentPodName = NoPod
    /\ debugDeployment = NoDeployment
    /\ i = 0
    /\ everyGetFound = TRUE
    /\ lastGet = ""
    /\ err = NoError
    /\ pod = NoPod
    /\ calls = << >>
    /\ debugged = {}


----------------------------------------------------------------------------
(* startDebug, lines 46-65: the in-memory copy and its mutations *)

\* labels["ceph.rook.io/do-not-reconcile"] = "true"
SetLabel(lbls, key, value) ==
    [ k \in DOMAIN lbls \cup {key} |-> IF k = key THEN value ELSE lbls[k] ]

MutateForDebugKeepsArgs(d, alternateImage) ==
    [ d EXCEPT
        !.labels = SetLabel(d.labels, DoNotReconcile, "true"),
        !.containers[1] =
            [ @ EXCEPT
                !.image = IF alternateImage # "" THEN alternateImage ELSE @,
                !.livenessProbe = NoProbe,
                !.startupProbe = NoProbe,
                !.command = SleepCommand ] ]

\* The copy after lines 47-63.  labels aliases deployment.Labels, so the write
\* through labels shows in the copy's labels too.
MutateForDebug(d, alternateImage) ==
    [ d EXCEPT
        !.labels = SetLabel(d.labels, DoNotReconcile, "true"),
        !.containers[1] =
            [ @ EXCEPT
                !.image = IF alternateImage # "" THEN alternateImage ELSE @,
                !.livenessProbe = NoProbe,
                !.startupProbe = NoProbe,
                !.command = SleepCommand,
                !.args = NoArgs ] ]

\* fmt.Sprintf("ceph_daemon_type=%s,ceph_daemon_id=%s", ...)
LabelSelector(d) ==
    [ ceph_daemon_type |-> d.daemon.ceph_daemon_type,
      ceph_daemon_id |-> d.daemon.ceph_daemon_id ]

DebugDeploymentSpecTemplateLabels(ns, name, lbls, d) ==
    Deployment(ns, DebugName(name), d.daemon, FALSE, d.replicas, d.daemon,
               d.containers)

\* The object handed to Create.
DebugDeploymentSpec(ns, name, lbls, d) ==
    Deployment(ns, DebugName(name), lbls, FALSE, d.replicas, d.daemon, d.containers)

\* The podName argument startDebug gives waitForPodDeletion.
DeletionWaitTarget == deploymentName

----------------------------------------------------------------------------
(* The errors the run can end with *)

MissingDeploymentErrorNoName(name) ==
    Error("Missing mon or osd deployment name", << >>)

MissingDeploymentError(name) == Error("Missing mon or osd deployment name", name)
NilMapPanic(name) == Error("panic: assignment to entry in nil map", name)
NoPodError(name) == Error("No pod with labels matching", name)
ScaleError(name) == Error("failed to update scale of deployment", name)
DeletionError(podName) == Error("failed to delete pod", podName)
CreateError(name, cause) == Error("Error creating deployment: " \o cause, name)

----------------------------------------------------------------------------
(* The order of startDebug's steps *)

AfterSkippingDeletionWait(step) ==
    CASE step = "GetDeployment" -> "WaitForPodToRun"
      [] step = "WaitForPodToRun" -> "ScaleDown"
      [] step = "ScaleDown" -> "Create"
      [] step = "waitForPodDeletion" -> "Create"
      [] step = "Create" -> "ScaleUp"
      [] step = "ScaleUp" -> "WaitForDebugPodToRun"
      [] step = "WaitForDebugPodToRun" -> "success"

\* The statement that follows each step when the step returns no error.
After(step) ==
    CASE step = "GetDeployment" -> "WaitForPodToRun"
      [] step = "WaitForPodToRun" -> "ScaleDown"
      [] step = "ScaleDown" -> "waitForPodDeletion"
      [] step = "waitForPodDeletion" -> "Create"
      [] step = "Create" -> "ScaleUp"
      [] step = "ScaleUp" -> "WaitForDebugPodToRun"
      [] step = "WaitForDebugPodToRun" -> "success"

----------------------------------------------------------------------------
(* The tool *)

Locals == << deployment, labels, labelSelector, deploymentPodName, debugDeployment >>
Args == << deploymentName, alternateImageValue >>
Cluster == << deployments, pods >>

Terminal == {"success", "fatal"}

Last(s) == s[Len(s)]

\* A wait helper is entered once, however many times it polls.
Entered(call) == IF calls # << >> /\ Last(calls) = call THEN calls
                 ELSE Append(calls, call)

\* StartDebug: return err reaches logging.Fatal, which ends the process.
Fatal(e) ==
    /\ pc' = "fatal"
    /\ err' = e

\* The CLI runs the workflow: StartDebug(ctx, clientset, namespace, name, image).
StartDebug ==
    /\ pc \in Terminal \cup {"idle"}
    /\ runs < MaxRuns
    /\ runs' = runs + 1
    /\ \E name \in DeploymentNames, image \in AlternateImages :
          /\ deploymentName' = name
          /\ alternateImageValue' = image
    /\ pc' = "GetDeployment"
    /\ deployment' = NoDeployment
    /\ labels' = NoLabels
    /\ labelSelector' = NoDaemon
    /\ deploymentPodName' = NoPod
    /\ debugDeployment' = NoDeployment
    /\ i' = 0
    /\ everyGetFound' = TRUE
    /\ lastGet' = ""
    /\ err' = NoError
    /\ pod' = NoPod
    /\ calls' = << >>
    /\ UNCHANGED << Cluster, debugged >>

\* Lines 41-65: GetDeployment, then the mutations of the copy.
GetDeployment ==
    /\ pc = "GetDeployment"
    /\ calls' = Append(calls, Call("GetDeployment", deploymentName, 0))
    /\ \E fault \in BOOLEAN :
          IF fault \/ ~Exists(CephClusterNamespace, deploymentName)
          THEN /\ Fatal(MissingDeploymentError(deploymentName))
               /\ UNCHANGED Locals
          ELSE LET original == deployments[Key(CephClusterNamespace, deploymentName)]
                   copy == MutateForDebug(original, alternateImageValue)
               IN  IF original.labelsNil
                   THEN \* a write to a nil map panics: the process dies
                        /\ Fatal(NilMapPanic(deploymentName))
                        /\ UNCHANGED Locals
                   ELSE /\ deployment' = copy
                        /\ labels' = copy.labels
                        /\ labelSelector' = LabelSelector(copy)
                        /\ pc' = After("GetDeployment")
                        /\ UNCHANGED << err, deploymentPodName, debugDeployment >>
    /\ UNCHANGED << Cluster, runs, Args, i, everyGetFound, lastGet, pod, debugged >>

\* Line 66: one poll of k8sutil.WaitForPodToRun for the current pod.
WaitForPodToRun ==
    /\ pc = "WaitForPodToRun"
    /\ calls' = Entered(Call("WaitForPodToRun", deploymentName, 0))
    /\ \/ \E p \in RunningPods(CephClusterNamespace, labelSelector) :
             /\ deploymentPodName' = p
             /\ pc' = After("WaitForPodToRun")
             /\ i' = 0
             /\ UNCHANGED err
       \/ /\ RunningPods(CephClusterNamespace, labelSelector) = {}
          /\ i' = i + 1
          /\ IF i + 1 = PodRunRetries
             THEN Fatal(NoPodError(deploymentName))
             ELSE UNCHANGED << pc, err >>
          /\ UNCHANGED deploymentPodName
    /\ UNCHANGED << Cluster, runs, Args, deployment, labels, labelSelector,
                    debugDeployment, everyGetFound, lastGet, pod, debugged >>

SetDeploymentScaleIgnoresCount(ns, name, scaleCount, then) ==
    \E fault \in BOOLEAN :
        IF fault \/ ~Exists(ns, name)
        THEN /\ Fatal(ScaleError(name))
             /\ UNCHANGED deployments
        ELSE /\ deployments' = UpdateScale(deployments, ns, name, 1)
             /\ pc' = then
             /\ UNCHANGED err

SetDeploymentScaleIgnoresError(ns, name, scaleCount, then) ==
    \E fault \in BOOLEAN :
        IF fault \/ ~Exists(ns, name)
        THEN /\ err' = ScaleError(name)
             /\ pc' = then
             /\ UNCHANGED deployments
        ELSE /\ deployments' = UpdateScale(deployments, ns, name, scaleCount)
             /\ pc' = then
             /\ UNCHANGED err

\* SetDeploymentScale, lines 111-126: the Scale object and the UpdateScale call.
SetDeploymentScale(ns, name, scaleCount, then) ==
    \E fault \in BOOLEAN :
        IF fault \/ ~Exists(ns, name)
        THEN /\ Fatal(ScaleError(name))
             /\ UNCHANGED deployments
        ELSE /\ deployments' = UpdateScale(deployments, ns, name, scaleCount)
             /\ pc' = then
             /\ UNCHANGED err

\* Line 71: scale the original deployment to 0.
ScaleDown ==
    /\ pc = "ScaleDown"
    /\ calls' = Append(calls, Call("SetDeploymentScale", deployment.name, 0))
    /\ SetDeploymentScale(CephClusterNamespace, deployment.name, 0, After("ScaleDown"))
    /\ i' = 0
    /\ everyGetFound' = TRUE
    /\ lastGet' = ""
    /\ UNCHANGED << pods, runs, Args, Locals, pod, debugged >>

\* What a Get answers: the pod, a not-found error, or another error.
GetAnswer(fault, found) ==
    IF fault THEN "error" ELSE IF found THEN "found" ELSE "notFound"

AnyError(fault, found) == fault \/ ~found

IsFound(fault, found) == ~fault /\ found

\* kerrors.IsNotFound(err), line 142: the Get answered, and with not-found.
IsNotFound(fault, found) == ~fault /\ ~found

NextAttemptStuck(n) == n

\* i++, line 140.
NextAttempt(n) == n + 1

\* Lines 139-151: one turn of the loop of waitForPodDeletion: a Get, then
\* either return nil on not-found or sleep; after the last turn the error.
waitForPodDeletion(podName) ==
    /\ pc = "waitForPodDeletion"
    /\ i < PodDeletionRetries
    /\ calls' = Entered(Call("waitForPodDeletion", podName, 0))
    /\ \E fault \in BOOLEAN :
          LET found == PodFound(CephClusterNamespace, podName)
          IN  /\ everyGetFound' = (everyGetFound /\ ~fault /\ found)
              /\ lastGet' = GetAnswer(fault, found)
              /\ IF IsNotFound(fault, found)
                 THEN /\ pc' = After("waitForPodDeletion")
                      /\ UNCHANGED << i, err >>
                 ELSE /\ i' = NextAttempt(i)
                      /\ IF i' = PodDeletionRetries
                         THEN Fatal(DeletionError(podName))
                         ELSE UNCHANGED << pc, err >>
    /\ UNCHANGED << Cluster, runs, Args, Locals, pod, debugged >>

\* Line 78.
WaitForPodDeletion == waitForPodDeletion(DeletionWaitTarget)

CreateCallReplaces(spec, fault) ==
    IF fault
    THEN /\ Fatal(CreateError(spec.name, "rejected"))
         /\ UNCHANGED << deployments, debugDeployment >>
    ELSE /\ deployments' = CreateDeployment(deployments, CephClusterNamespace, spec)
         /\ debugDeployment' = deployments'[Key(CephClusterNamespace, spec.name)]
         /\ pc' = After("Create")
         /\ UNCHANGED err

CreateCallRollsBack(spec, fault) ==
    IF fault \/ Exists(CephClusterNamespace, spec.name)
    THEN /\ Fatal(CreateError(spec.name, "rejected"))
         /\ deployments' = UpdateScale(deployments, CephClusterNamespace,
                                       deploymentName, 1)
         /\ UNCHANGED debugDeployment
    ELSE /\ deployments' = CreateDeployment(deployments, CephClusterNamespace, spec)
         /\ debugDeployment' = deployments'[Key(CephClusterNamespace, spec.name)]
         /\ pc' = After("Create")
         /\ UNCHANGED err

CreateCallUpdatesOriginal(spec, fault) ==
    IF fault
    THEN /\ Fatal(CreateError(spec.name, "rejected"))
         /\ UNCHANGED << deployments, debugDeployment >>
    ELSE IF Exists(CephClusterNamespace, spec.name)
    THEN /\ Fatal(CreateError(spec.name, "already exists"))
         /\ UNCHANGED << deployments, debugDeployment >>
    ELSE /\ deployments' =
               [ CreateDeployment(deployments, CephClusterNamespace, spec)
                   EXCEPT ![Key(CephClusterNamespace, deploymentName)] =
                       [ deployment EXCEPT !.replicas = 0 ] ]
         /\ debugDeployment' = deployments'[Key(CephClusterNamespace, spec.name)]
         /\ pc' = After("Create")
         /\ UNCHANGED err

\* Lines 92-95: Deployments(ns).Create and its error.
CreateCall(spec, fault) ==
    IF fault
    THEN /\ Fatal(CreateError(spec.name, "rejected"))
         /\ UNCHANGED << deployments, debugDeployment >>
    ELSE IF Exists(CephClusterNamespace, spec.name)
    THEN /\ Fatal(CreateError(spec.name, "already exists"))
         /\ UNCHANGED << deployments, debugDeployment >>
    ELSE /\ deployments' = CreateDeployment(deployments, CephClusterNamespace, spec)
         /\ debugDeployment' = deployments'[Key(CephClusterNamespace, spec.name)]
         /\ pc' = After("Create")
         /\ UNCHANGED err

\* Lines 83-95: build the debug deployment and Create it.
Create ==
    /\ pc = "Create"
    /\ LET spec == DebugDeploymentSpec(CephClusterNamespace, deploymentName,
                                       labels, deployment)
       IN  /\ calls' = Append(calls, Call("Create", spec.name, 0))
           /\ \E fault \in BOOLEAN : CreateCall(spec, fault)
    /\ UNCHANGED << pods, runs, Args, deployment, labels, labelSelector,
                    deploymentPodName, i, everyGetFound, lastGet, pod, debugged >>

\* Line 98: scale the debug deployment to 1.
ScaleUp ==
    /\ pc = "ScaleUp"
    /\ calls' = Append(calls, Call("SetDeploymentScale", debugDeployment.name, 1))
    /\ SetDeploymentScale(CephClusterNamespace, debugDeployment.name, 1,
                          After("ScaleUp"))
    /\ i' = 0
    /\ UNCHANGED << pods, runs, Args, Locals, everyGetFound, lastGet, pod, debugged >>

\* Lines 102-108: one poll of k8sutil.WaitForPodToRun for the new pod; its
\* error goes to logging.Fatal, its pod is reported and nil returned.
WaitForDebugPodToRun ==
    /\ pc = "WaitForDebugPodToRun"
    /\ calls' = Entered(Call("WaitForPodToRun", deploymentName, 1))
    /\ \/ \E p \in RunningPods(CephClusterNamespace, labelSelector) :
             /\ pod' = p
             /\ pc' = After("WaitForDebugPodToRun")
             /\ i' = 0
             /\ debugged' = debugged \cup { << deploymentName, runs >> }
             /\ UNCHANGED err
       \/ /\ RunningPods(CephClusterNamespace, labelSelector) = {}
          /\ i' = i + 1
          /\ IF i + 1 = PodRunRetries
             THEN Fatal(NoPodError(deploymentName))
             ELSE UNCHANGED << pc, err >>
          /\ UNCHANGED << pod, debugged >>
    /\ UNCHANGED << Cluster, runs, Args, Locals, everyGetFound, lastGet >>

----------------------------------------------------------------------------
(* The cluster's own controllers *)

\* The deployment controller starts a pod for a deployment that wants one.
ControllerCreatesPod ==
    \E k \in DOMAIN deployments :
        /\ deployments[k].replicas >= 1
        /\ PodsOf(k[1], k[2]) = {}
        /\ pods' = pods \cup { Pod(k[1], PodNameOf(k[2]), k[2], "Pending",
                                   deployments[k].daemon) }
        /\ UNCHANGED << deployments, pc, runs, Args, Locals, i, everyGetFound, lastGet,
                        err, pod, calls, debugged >>

\* The kubelet starts a pending pod's containers.
KubeletRunsPod ==
    \E p \in pods :
        /\ p.phase = "Pending"
        /\ pods' = (pods \ {p}) \cup { [ p EXCEPT !.phase = "Running" ] }
        /\ UNCHANGED << deployments, pc, runs, Args, Locals, i, everyGetFound, lastGet,
                        err, pod, calls, debugged >>

\* The deployment controller removes the pods of a deployment scaled to 0.
ControllerDeletesPod ==
    \E p \in pods :
        /\ Exists(p.namespace, p.owner)
        /\ deployments[Key(p.namespace, p.owner)].replicas = 0
        /\ pods' = pods \ {p}
        /\ UNCHANGED << deployments, pc, runs, Args, Locals, i, everyGetFound, lastGet,
                        err, pod, calls, debugged >>

\* Somebody deletes a pod no deployment owns.
BarePodDeleted ==
    \E p \in pods :
        /\ p.owner = << >>
        /\ pods' = pods \ {p}
        /\ UNCHANGED << deployments, pc, runs, Args, Locals, i, everyGetFound, lastGet,
                        err, pod, calls, debugged >>

----------------------------------------------------------------------------
ToolStep ==
    \/ GetDeployment
    \/ WaitForPodToRun
    \/ ScaleDown
    \/ WaitForPodDeletion
    \/ Create
    \/ ScaleUp
    \/ WaitForDebugPodToRun

Next ==
    \/ StartDebug
    \/ GetDeployment
    \/ WaitForPodToRun
    \/ ScaleDown
    \/ WaitForPodDeletion
    \/ Create
    \/ ScaleUp
    \/ WaitForDebugPodToRun
    \/ ControllerCreatesPod
    \/ KubeletRunsPod
    \/ ControllerDeletesPod
    \/ BarePodDeleted

Spec == Init /\ [][Next]_vars

\* The tool is one blocking process: while a run is in progress its next
\* step is taken.
FairSpec == Spec /\ WF_vars(ToolStep)

----------------------------------------------------------------------------
(* What the claims speak of *)

OriginalKey == Key(CephClusterNamespace, deploymentName)
DebugKey == Key(CephClusterNamespace, DebugName(deploymentName))

MutatingOps == {"SetDeploymentScale", "Create"}

\* The calls of the run so far whose operation is in ops.
CallsOf(ops) == { k \in 1..Len(calls) : calls[k].op \in ops }

\* C1: a run against a deployment name that does not exist in the namespace
\* ends at once in an error that carries that name, having issued only the
\* Get: no UpdateScale, no Create, no pod wait.
C1_MissingDeploymentFails ==
    (runs >= 1 /\ pc # "GetDeployment" /\ ~Exists(CephClusterNamespace, deploymentName))
        => /\ pc = "fatal"
           /\ err.kind = "Missing mon or osd deployment name"
           /\ err.name = deploymentName
           /\ calls = << Call("GetDeployment", deploymentName, 0) >>

C1_Witness ==
    /\ pc = "fatal"
    /\ deploymentName = MonB
    /\ ~Exists(CephClusterNamespace, MonB)
    /\ err = Error("Missing mon or osd deployment name", MonB)

\* C2 as stated: after a successful run with alternate image Y the deployment
\* <name>-debug exists in the namespace with image Y, the command sleep
\* infinity, empty args and every probe unset.
C2_AllProbesUnset ==
    (pc = "success" /\ alternateImageValue # "")
        => /\ Exists(CephClusterNamespace, DebugName(deploymentName))
           /\ LET c == deployments[DebugKey].containers[1]
              IN  /\ deployments[DebugKey].namespace = CephClusterNamespace
                  /\ c.image = alternateImageValue
                  /\ c.command = SleepCommand
                  /\ c.args = << >>
                  /\ c.livenessProbe = NoProbe
                  /\ c.startupProbe = NoProbe
                  /\ c.readinessProbe = NoProbe

\* C2 as amended: after a successful run with alternate image Y the deployment
\* <name>-debug exists in the namespace; its first container has image Y, the
\* command sleep infinity, empty args and no liveness and no startup probe;
\* that container's readiness probe and every other container are the
\* original's.
C2_DebugDeploymentCreated ==
    (pc = "success" /\ alternateImageValue # "")
        => /\ Exists(CephClusterNamespace, DebugName(deploymentName))
           /\ LET d == deployments[DebugKey]
                  o == deployments[OriginalKey]
                  c == d.containers[1]
              IN  /\ d.namespace = CephClusterNamespace
                  /\ d.name = DebugName(deploymentName)
                  /\ c.image = alternateImageValue
                  /\ c.command = SleepCommand
                  /\ c.args = << >>
                  /\ c.livenessProbe = NoProbe
                  /\ c.startupProbe = NoProbe
                  /\ c.readinessProbe = o.containers[1].readinessProbe
                  /\ Len(d.containers) = Len(o.containers)
                  /\ \A k \in 2..Len(d.containers) : d.containers[k] = o.containers[k]

C2_Witness ==
    /\ pc = "success"
    /\ alternateImageValue = "Y"
    /\ Exists(CephClusterNamespace, DebugName(MonA))
    /\ deployments[Key(CephClusterNamespace, DebugName(MonA))].containers[1].image = "Y"
    /\ deployments[Key(CephClusterNamespace, MonA)].containers[1].image = "X"

\* C3: whenever the Create call for <name>-debug is issued, no pod of the
\* original deployment exists in the cluster.
C3_CreateAfterPodDeleted ==
    [][ (pc = "Create" /\ pc' # "Create")
            => PodsOf(CephClusterNamespace, deploymentName) = {} ]_vars

\* C4: the pod a successful run reports as ready for debugging is a Running
\* pod of the <name>-debug deployment, not a pod of the original deployment.
C4_ReportedPodIsDebugPod ==
    pc = "success"
        => /\ pod.phase = "Running"
           /\ pod.owner = DebugName(deploymentName)

\* The deletion wait of this run has returned.
DeletionWaitReturned ==
    /\ pc # "waitForPodDeletion"
    /\ CallsOf({"waitForPodDeletion"}) # {}

\* C5: when every Get of waitForPodDeletion finds the pod, the helper makes
\* exactly 60 Gets, each followed by the wait, and returns the error that
\* carries the pod's name; it does not return success.
C5_DeletionWaitExhausts ==
    (DeletionWaitReturned /\ everyGetFound)
        => /\ pc = "fatal"
           /\ i = PodDeletionRetries
           /\ err.kind = "failed to delete pod"
           /\ err.name = calls[Len(calls)].name
           /\ Last(calls).op = "waitForPodDeletion"

C5_Witness ==
    /\ pc = "fatal"
    /\ everyGetFound
    /\ i = 60
    /\ err = Error("failed to delete pod", MonA)
    /\ BarePod(MonA) \in pods

\* The operations of a run that succeeds, in the order of the claim.
ExpectedCalls(name) ==
    << Call("GetDeployment", name, 0),
       Call("WaitForPodToRun", name, 0),
       Call("SetDeploymentScale", name, 0),
       Call("waitForPodDeletion", name, 0),
       Call("Create", DebugName(name), 0),
       Call("SetDeploymentScale", DebugName(name), 1),
       Call("WaitForPodToRun", name, 1) >>

\* The same operation; for the calls on deployments, on the same deployment.
SameOperation(c, e) ==
    /\ c.op = e.op
    /\ c.n = e.n
    /\ (e.op \in MutatingOps \cup {"GetDeployment"} => c.name = e.name)

\* How many operations have been issued when the run is at a step: the ones
\* before it, and the step's own once it is a wait in progress.
IssuedAt(step) ==
    CASE step = "GetDeployment" -> {0}
      [] step = "WaitForPodToRun" -> {1, 2}
      [] step = "ScaleDown" -> {2}
      [] step = "waitForPodDeletion" -> {3, 4}
      [] step = "Create" -> {4}
      [] step = "ScaleUp" -> {5}
      [] step = "WaitForDebugPodToRun" -> {6, 7}
      [] step = "success" -> {7}
      [] step = "fatal" -> 1..7
      [] step = "idle" -> {0}

FailedOp(e) ==
    CASE e.kind = "Missing mon or osd deployment name" -> {"GetDeployment"}
      [] e.kind = "panic: assignment to entry in nil map" -> {"GetDeployment"}
      [] e.kind = "No pod with labels matching" -> {"WaitForPodToRun"}
      [] e.kind = "failed to update scale of deployment" -> {"SetDeploymentScale"}
      [] e.kind = "failed to delete pod" -> {"waitForPodDeletion"}
      [] OTHER -> {"Create"}

\* The run scaled the original deployment to 0 and went on.
ScaledDown == Len(calls) >= 4

\* C7: a run that fails after it scaled the original deployment to 0 ends
\* with the original at 0 replicas; the failed operation is the last one it
\* issued, none of its calls scales the original up, and a debug deployment it
\* created is still there.
C7_NoRollback ==
    (pc = "fatal" /\ ScaledDown)
        => /\ Exists(CephClusterNamespace, deploymentName)
           /\ deployments[OriginalKey].replicas = 0
           /\ Last(calls).op \in FailedOp(err)
           /\ \A k \in 1..Len(calls) :
                 ~(calls[k].op \in MutatingOps /\ calls[k].name = deploymentName
                   /\ calls[k].n # 0)
           /\ (Len(calls) >= 6 => Exists(CephClusterNamespace, DebugName(deploymentName)))

C7_Witness ==
    /\ pc = "fatal"
    /\ runs = 1
    /\ Len(calls) = 5
    /\ err.kind = "Error creating deployment: rejected"
    /\ deployments[OriginalKey].replicas = 0
    /\ ~Exists(CephClusterNamespace, DebugName(deploymentName))

\* This run is against a deployment an earlier run succeeded for.
Rerun == \E d \in debugged : d[1] = deploymentName /\ d[2] < runs

\* C8 as stated: a run against a deployment an earlier run succeeded for
\* reaches the Create call and ends in the name-conflict error of that call.
C8_RerunEndsInConflict ==
    (Rerun /\ pc \in Terminal)
        => /\ pc = "fatal"
           /\ Last(calls).op = "Create"
           /\ err.kind = "Error creating deployment: already exists"

\* No deployment is created or replaced by the step: the same deployments,
\* each the same but for its replica count.
NothingCreatedOrReplaced ==
    /\ DOMAIN deployments' = DOMAIN deployments
    /\ \A k \in DOMAIN deployments :
          [ deployments'[k] EXCEPT !.replicas = 0 ] =
              [ deployments[k] EXCEPT !.replicas = 0 ]

\* C8 as amended: a run against a deployment an earlier run succeeded for
\* never ends in success and creates or replaces no deployment; when it
\* reaches the Create call, the call fails, on the name conflict unless the
\* request itself is rejected.  (It may end in the error of an earlier step.)
C8_NotIdempotent ==
    /\ [](Rerun => /\ pc # "success"
                   /\ Exists(CephClusterNamespace, DebugName(deploymentName))
                   /\ (calls # << >> /\ Last(calls).op = "Create")
                         => /\ pc = "fatal"
                            /\ err.kind \in {"Error creating deployment: already exists",
                                             "Error creating deployment: rejected"})
    /\ [][Rerun => NothingCreatedOrReplaced]_vars

C8_Witness ==
    /\ Rerun
    /\ pc = "fatal"
    /\ Last(calls) = Call("Create", DebugName(MonA), 0)
    /\ err = Error("Error creating deployment: already exists", DebugName(MonA))

\* Deployments(ns).GetScale(name): the stored replica count.
GetScale(deps, ns, name) == deps[Key(ns, name)].replicas

\* C9: after SetDeploymentScale(namespace, name, N) returns no error, the
\* Scale of that deployment reads N and no other deployment has changed.
C9_ScaleReadBack ==
    [][ (Len(calls') = Len(calls) + 1
            /\ Last(calls').op = "SetDeploymentScale" /\ pc' # "fatal")
        => LET c == Last(calls')
           IN  /\ Exists(CephClusterNamespace, c.name)
               /\ GetScale(deployments', CephClusterNamespace, c.name) = c.n
               /\ c.n \in {0, 1}
               /\ DOMAIN deployments' = DOMAIN deployments
               /\ \A k \in DOMAIN deployments :
                     k # Key(CephClusterNamespace, c.name)
                        => deployments'[k] = deployments[k] ]_vars

C9_Witness ==
    /\ pc = "WaitForDebugPodToRun"
    /\ Last(calls) = Call("SetDeploymentScale", DebugName(MonA), 1)
    /\ deployments[Key(CephClusterNamespace, DebugName(MonA))].replicas = 1
    /\ deployments[Key(CephClusterNamespace, MonA)].replicas = 0
    /\ deployments[Key(OtherNamespace, MonA)].replicas = 1

\* C10: every run ends, in success or in the fatal abort and nowhere else;
\* success comes only from a final wait that saw a Running pod; no behaviour
\* of the cluster keeps a wait polling for ever.
C10_RunTerminates ==
    /\ [](pc = "success" => /\ pod.phase = "Running"
                            /\ Last(calls) = Call("WaitForPodToRun", deploymentName, 1))
    /\ [](~ENABLED ToolStep => pc \in Terminal \cup {"idle"})
    /\ [](i <= PodDeletionRetries /\ i <= PodRunRetries)
    /\ (pc \notin Terminal \cup {"idle"}) ~> (pc \in Terminal)

C10_Witness ==
    /\ pc = "fatal"
    /\ i = PodDeletionRetries
    /\ err.kind = "failed to delete pod"
    /\ runs = 1

\* C11: a failed step ends the run: an error is held only in the fatal abort,
\* the failed operation is the last one the run issued, and from the abort on
\* the run issues no call and changes no deployment.
C11_ErrorAborts ==
    /\ [](err # NoError => /\ pc = "fatal"
                           /\ Last(calls).op \in FailedOp(err))
    /\ [](pc = "fatal" => err # NoError)
    /\ [][(pc = "fatal" /\ runs' = runs)
            => /\ pc' = "fatal"
               /\ UNCHANGED << calls, err, deployments >>]_vars

C11_Witness ==
    /\ pc = "fatal"
    /\ err = Error("failed to update scale of deployment", MonA)
    /\ Len(calls) = 3
    /\ deployments[Key(CephClusterNamespace, MonA)].replicas = 1
    /\ ~Exists(CephClusterNamespace, DebugName(MonA))

\* One turn of the loop of waitForPodDeletion.
DeletionTurn == pc = "waitForPodDeletion" /\ (i' # i \/ pc' # pc)

\* C12: waitForPodDeletion returns success exactly when a Get, one of at most
\* 60, answers not-found, and returns at that Get; a Get that finds the pod or
\* fails with another error counts as one attempt with the pod still present,
\* and the 60th such attempt returns the error.
C12_SuccessIffNotFound ==
    /\ [][DeletionTurn
            => /\ i < PodDeletionRetries
               /\ lastGet' \in {"found", "notFound", "error"}
               /\ (lastGet' = "found"
                      => PodFound(CephClusterNamespace, DeletionWaitTarget))
               /\ (lastGet' = "notFound"
                      => ~PodFound(CephClusterNamespace, DeletionWaitTarget))
               /\ (pc' = "Create") <=> (lastGet' = "notFound")
               /\ (lastGet' = "notFound" => i' = i /\ err' = NoError)
               /\ (lastGet' # "notFound"
                      => /\ i' = i + 1
                         /\ pc' = IF i' = PodDeletionRetries THEN "fatal" ELSE pc)]_vars
    /\ [](DeletionWaitReturned
            => /\ (lastGet = "notFound") <=> (err.kind # "failed to delete pod")
               /\ (lastGet # "notFound" => i = PodDeletionRetries))

C12_Witness ==
    /\ pc = "Create"
    /\ lastGet = "notFound"
    /\ i >= 2
    /\ ~everyGetFound
    /\ err = NoError

\* Two deployment objects that differ at most in the replica count.
SameButReplicas(a, b) == [ a EXCEPT !.replicas = 0 ] = [ b EXCEPT !.replicas = 0 ]

\* A step of the tool, not of the cluster's controllers.
ToolTurn == calls' # calls \/ pc' # pc \/ i' # i

\* C13: no step deletes a deployment or changes anything of a stored
\* deployment but its replica count; the original's count changes only to 0,
\* by the run's UpdateScale; the one object that appears is <name>-debug, by
\* the run's Create, and it is the mutated copy; the tool's steps leave the
\* pods alone.
C13_OnlyReplicasOfOriginal ==
    [][ /\ \A k \in DOMAIN deployments :
              /\ k \in DOMAIN deployments'
              /\ SameButReplicas(deployments'[k], deployments[k])
        /\ \A k \in DOMAIN deployments' \ DOMAIN deployments :
              /\ k = DebugKey
              /\ Last(calls') = Call("Create", DebugName(deploymentName), 0)
              /\ deployments'[k].containers = deployment.containers
              /\ deployments'[k].labels = labels
        /\ \A k \in DOMAIN deployments :
              (k[2] = MonA /\ deployments'[k].replicas # deployments[k].replicas)
                 => /\ k = OriginalKey
                    /\ deployments'[k].replicas = 0
                    /\ Last(calls') = Call("SetDeploymentScale", deploymentName, 0)
        /\ (ToolTurn => pods' = pods) ]_vars

C13_Witness ==
    /\ pc = "success"
    /\ \E d \in OriginalDeployments :
          deployments[Key(CephClusterNamespace, MonA)] = [ d EXCEPT !.replicas = 0 ]
    /\ deployments[Key(CephClusterNamespace, MonA)].containers[1].command # SleepCommand
    /\ DoNotReconcile \notin DOMAIN deployments[Key(CephClusterNamespace, MonA)].labels
    /\ deployments[Key(CephClusterNamespace, DebugName(MonA))].containers[1].command
          = SleepCommand
    /\ deployments[Key(CephClusterNamespace, DebugName(MonA))].labels[DoNotReconcile]
          = "true"

\* This run's Create has stored the debug deployment.
CreatedThisRun == debugDeployment # NoDeployment

\* C14: the <name>-debug deployment a run created has the original's label
\* keys and ceph.rook.io/do-not-reconcile, that one with the value true and
\* every other with the original's value; with an empty alternate image its
\* first container has the image of the original's.
C14_LabelsAndImageCarried ==
    CreatedThisRun
        => /\ Exists(CephClusterNamespace, DebugName(deploymentName))
           /\ LET d == deployments[DebugKey]
                  o == deployments[OriginalKey]
              IN  /\ ~d.labelsNil
                  /\ DOMAIN d.labels = DOMAIN o.labels \cup {DoNotReconcile}
                  /\ d.labels[DoNotReconcile] = "true"
                  /\ \A k \in DOMAIN o.labels \ {DoNotReconcile} :
                        d.labels[k] = o.labels[k]
                  /\ (alternateImageValue = ""
                        => d.containers[1].image = o.containers[1].image)

C14_Witness ==
    /\ CreatedThisRun
    /\ alternateImageValue = ""
    /\ deployments[Key(CephClusterNamespace, MonA)].labels = HeldLabels
    /\ deployments[Key(CephClusterNamespace, DebugName(MonA))].labels
          = SetLabel(HeldLabels, DoNotReconcile, "true")
    /\ deployments[Key(CephClusterNamespace, DebugName(MonA))].containers[1].image = "X"

====
